---- MODULE Spec2Model ----
(***************************************************************************)
(* fractal_timer.py: the zone registry, FractalState (daily timer),        *)
(* MarathonState (102-level marathon timer persisted in state.json) and    *)
(* the FractalTimer polling driver (toggle_timer / tick_tock).             *)
(***************************************************************************)
EXTENDS Integers, Sequences, FiniteSets, TLC

(* ---------------------------------------------------------------- bounds *)

\* int(time()) is read once per call. Timestamps are counted from 1 and the
\* clock saturates at MaxNow: every later second reads as MaxNow.
MaxNow == 3

\* The number of calls (start, stop, update, process restart) of a bounded run.
MaxCalls == 5
\* The longest levels list of a state.json that is shorter than the program's.
MaxShort == 2

(* ------------------------------------------------------- python values *)

\* Python's None (timestamps and map ids are positive integers).
None == -1

\* Truthiness of an Optional[int]: None and 0 are falsy.
Truthy(v) == v # None /\ v # 0

ifN(v, d) == IF v # None THEN v ELSE d

(* ------------------------------------------------------- zone registry *)

MAP_TO_NAME ==
  (956 :> "Aetherblade") @@
  (951 :> "Aquatic Ruins") @@
  (960 :> "Captain Mai Trin Boss") @@
  (1164 :> "Chaos") @@
  (952 :> "Cliffside") @@
  (959 :> "Molten Boss") @@
  (955 :> "Molten Furnace") @@
  (1177 :> "Nightmare") @@
  (1205 :> "Shattered Observatory") @@
  (948 :> "Snowblind") @@
  (958 :> "Solid Ocean") @@
  (949 :> "Swampland") @@
  (957 :> "Thaumanova Reactor") @@
  (1267 :> "Twilight Oasis") @@
  (947 :> "Uncategorized") @@
  (953 :> "Underground Facility") @@
  (950 :> "Urban Battleground") @@
  (954 :> "Volcanic")

MAP_TO_LEVELS ==
  (956 :> {14, 46, 65, 71, 96}) @@
  (951 :> {7, 26, 61, 76}) @@
  (960 :> {18, 42, 73, 95}) @@
  (1164 :> {13, 30, 38, 54, 63, 88, 98}) @@
  (952 :> {6, 22, 33, 47, 69, 82, 94}) @@
  (959 :> {10, 40, 70, 90}) @@
  (955 :> {9, 23, 39, 58, 83}) @@
  (1177 :> {24, 49, 74, 99, 101}) @@
  (1205 :> {25, 50, 75, 100, 102}) @@
  (948 :> {3, 27, 37, 51, 68, 86, 93}) @@
  (958 :> {20, 35, 45, 60, 80}) @@
  (949 :> {5, 21, 32, 56, 67, 77, 89}) @@
  (957 :> {15, 34, 48, 55, 64, 84, 97}) @@
  (1267 :> {16, 41, 59, 87}) @@
  (947 :> {2, 12, 36, 44, 62, 79, 91}) @@
  (953 :> {8, 17, 29, 43, 53, 81}) @@
  (950 :> {4, 11, 31, 57, 66, 78, 85}) @@
  (954 :> {1, 19, 28, 52, 72, 92})

\* {l: m for m, v in MAP_TO_LEVELS.items() for l in v}; no level is listed
\* under two maps, so the comprehension never overwrites a key.
LEVEL_TO_MAP ==
  [l \in UNION {MAP_TO_LEVELS[m] : m \in DOMAIN MAP_TO_LEVELS} |->
     CHOOSE m \in DOMAIN MAP_TO_LEVELS : l \in MAP_TO_LEVELS[m]]

\* Past the last level the lookup wraps around to the first.
LevelToMapGet_Wraps(l) ==
  IF l \in DOMAIN LEVEL_TO_MAP THEN LEVEL_TO_MAP[l]
  ELSE IF l > 0 THEN LEVEL_TO_MAP[1]
  ELSE None

\* LEVEL_TO_MAP.get(l): None for a level the registry does not hold.
LevelToMapGet(l) == IF l \in DOMAIN LEVEL_TO_MAP THEN LEVEL_TO_MAP[l] ELSE None

\* The values get_player_map can hand to update(): the eighteen fractal maps
\* and 999 for every map id outside MAP_TO_NAME (a lobby, an open-world map).
MapIds == DOMAIN MAP_TO_NAME \cup {999}

(* --------------------------------------------------------------- state *)

VARIABLES
  clock,       \* the last value int(time()) returned
  fractal,     \* the FractalState instance's __dict__: attribute name -> value
  state,       \* MarathonState.state: the document {start, end, levels}
  level,       \* MarathonState.level: the cursor
  state_json,  \* the file state.json: <<>> when absent, else <<its JSON text>>
  running,     \* FractalTimer.running
  called,      \* the last call: <<method>> or <<method, argument>>
  logged,      \* the actions the last call passed to log(), in order
  ret,         \* the display triple the last call returned
  raised,      \* the exception the last call raised, "" when it returned
  calls        \* the number of calls made so far in a bounded run

vars == <<clock, fractal, state, level, state_json, running, called, logged, ret,
          raised, calls>>

\* now = int(time()): the wall clock does not run backwards between two calls.
Nows == {t \in {clock, clock + 1} : t <= MaxNow}

NoTriple == <<"", "", "">>

(* ------------------------------------------------------------- helpers *)

Pad2(n) == IF n < 10 THEN "0" \o ToString(n) ELSE ToString(n)

\* str(timedelta(seconds=end - start)) for 0 <= end - start < 86400.
strtime(s, e) ==
  LET n == e - s
  IN ToString(n \div 3600) \o ":" \o Pad2((n % 3600) \div 60) \o ":" \o Pad2(n % 60)

Range(seq) == {seq[i] : i \in DOMAIN seq}

\* Whether seq[i] exists in Python: -len(seq) <= i < len(seq).
InRange(seq, i) == -Len(seq) <= i /\ i < Len(seq)

\* seq[i] with Python's indexing: 0-based, a negative i counts from the end.
PyIndex(seq, i) == IF i < 0 THEN Len(seq) + i + 1 ELSE i + 1

(* -------------------------------------------------------- FractalState *)

\* The six instance attributes; __init is never run (it is not __init__), so
\* the instance starts with none of them.
FractalAttrs == {"start", "end", "current_map", "current_map_name",
                 "current_start", "current_end"}

HasAttr(d, a) == a \in DOMAIN d

SetAttr(d, a, v) == (a :> v) @@ d

NoAttrs == [a \in {} |-> None]

F_total_time(d, now) == strtime(d["start"], ifN(d["end"], now))

F_instance_time(d, now) ==
  IF Truthy(d["current_start"])
  THEN strtime(d["current_start"], ifN(d["current_end"], now))
  ELSE ""

F_triple(d, now) == <<F_total_time(d, now), d["current_map_name"], F_instance_time(d, now)>>

\* A tracked map restarts the instance on every poll.
F_InstanceStart_EveryPoll(d, current_map) == current_map \in DOMAIN MAP_TO_NAME

\* update(): the branch that starts an instance.
F_InstanceStart(d, current_map) ==
  /\ current_map # d["current_map"]
  /\ current_map \in DOMAIN MAP_TO_NAME

\* update(): the branch that stops the instance.
F_InstanceStop(d, current_map) ==
  /\ current_map # d["current_map"]
  /\ current_map \notin DOMAIN MAP_TO_NAME
  /\ d["current_map"] # None

F_AfterInstanceStart(d, current_map, now) ==
  [d EXCEPT !["current_map"] = current_map,
            !["current_map_name"] = MAP_TO_NAME[current_map],
            !["current_start"] = now,
            !["current_end"] = None]

\* Leaving the instance clears its label as well.
F_AfterInstanceStop_ClearsName(d, now) ==
  [d EXCEPT !["current_map"] = None, !["current_end"] = now, !["current_map_name"] = ""]

F_AfterInstanceStop(d, now) ==
  [d EXCEPT !["current_map"] = None, !["current_end"] = now]

FractalState_update(current_map, now) ==
  /\ clock' = now
  /\ called' = <<"update", current_map>>
  /\ IF ~HasAttr(fractal, "current_map")
     THEN \* self.current_map does not exist yet
          /\ raised' = "AttributeError"
          /\ UNCHANGED <<fractal, ret>>
          /\ logged' = <<>>
     ELSE /\ fractal' = IF F_InstanceStart(fractal, current_map)
                        THEN F_AfterInstanceStart(fractal, current_map, now)
                        ELSE IF F_InstanceStop(fractal, current_map)
                        THEN F_AfterInstanceStop(fractal, now)
                        ELSE fractal
          /\ logged' = IF F_InstanceStart(fractal, current_map) THEN <<"instance start">>
                       ELSE IF F_InstanceStop(fractal, current_map) THEN <<"instance stop">>
                       ELSE <<>>
          /\ ret' = F_triple(fractal', now)
          /\ raised' = ""

F_AfterStop(d, now) == SetAttr(SetAttr(d, "current_end", now), "end", now)

FractalState_stop(now) ==
  /\ clock' = now
  /\ called' = <<"stop">>
  /\ fractal' = F_AfterStop(fractal, now)
  /\ IF ~HasAttr(fractal, "start")
     THEN \* log(): total_time() subtracts the bound method self.start
          /\ raised' = "TypeError"
          /\ logged' = <<>>
          /\ UNCHANGED ret
     ELSE /\ raised' = ""
          /\ logged' = <<"stop">>
          /\ ret' = F_triple(fractal', now)

F_AfterStart(d, now) ==
  [a \in FractalAttrs |->
     CASE a = "start" -> now
       [] a = "current_map_name" -> ""
       [] OTHER -> None]

\* self.start is the method until start() first stores the timestamp under
\* the same name; from then on self.start() calls an int.
F_StartCallable(d) == ~HasAttr(d, "start")

FractalState_start(now) ==
  /\ clock' = now
  /\ called' = <<"start">>
  /\ IF ~F_StartCallable(fractal)
     THEN /\ raised' = "TypeError"
          /\ logged' = <<>>
          /\ UNCHANGED <<fractal, ret>>
     ELSE /\ fractal' = F_AfterStart(fractal, now)
          /\ raised' = ""
          /\ logged' = <<"start">>
          /\ ret' = F_triple(fractal', now)

(* ------------------------------------------------------ json.dump/load *)

JsonValue(v) == IF v = None THEN "null" ELSE ToString(v)

PyValue(text) ==
  IF text = "null" THEN None ELSE CHOOSE n \in 0..(MaxNow + 1) : ToString(n) = text

json_dump(doc) ==
  [start  |-> JsonValue(doc.start),
   end    |-> JsonValue(doc.end),
   levels |-> [i \in DOMAIN doc.levels |->
                 [start |-> JsonValue(doc.levels[i].start),
                  end   |-> JsonValue(doc.levels[i].end)]]]

json_load(text) ==
  [start  |-> PyValue(text.start),
   end    |-> PyValue(text.end),
   levels |-> [i \in DOMAIN text.levels |->
                 [start |-> PyValue(text.levels[i].start),
                  end   |-> PyValue(text.levels[i].end)]]]

(* ------------------------------------------------------- MarathonState *)

\* self.graph only reads the document (and is a no-op without --graph); it is
\* left out.

NumLevels == 102

FreshState ==
  [start |-> None, end |-> None,
   levels |-> [i \in 1..NumLevels |-> [start |-> None, end |-> None]]]

\* [i for i, x in enumerate(levels) if x['end'] is not None], 0-based.
CompletedLevels(doc) == {i \in 0..(Len(doc.levels) - 1) : doc.levels[i + 1].end # None}

Max(S) == CHOOSE x \in S : \A y \in S : y <= x

\* The cursor is the largest completed index, without the + 1.
LevelOf_NoPlusOne(doc) == IF CompletedLevels(doc) # {} THEN Max(CompletedLevels(doc)) ELSE 0

LevelOf(doc) == IF CompletedLevels(doc) # {} THEN Max(CompletedLevels(doc)) + 1 ELSE 0

M_total_time(st, now) ==
  IF Truthy(st.start) THEN strtime(st.start, ifN(st.end, now)) ELSE ""

M_label(x) ==
  IF x = 0 THEN ""
  ELSE MAP_TO_NAME[LEVEL_TO_MAP[x]] \o " - "
       \o ToString(IF x <= 100 THEN x ELSE x - 2)
       \o (IF x > 100 THEN "CM" ELSE "")

M_instance_time(st, lv, now) ==
  LET s == st.levels[PyIndex(st.levels, lv - 1)].start
      e == st.levels[PyIndex(st.levels, lv - 1)].end
  IN IF Truthy(s) THEN strtime(s, ifN(e, now)) ELSE ""

M_triple(st, lv, now) == <<M_total_time(st, now), M_label(lv), M_instance_time(st, lv, now)>>

\* save_state(): the whole document is rewritten.
save_state(st) == <<json_dump(st)>>

\* update(): "continue or reset" against "stop, start, or noop".
SameLevel(lv, current_map) == current_map = LevelToMapGet(lv)

\* A completed current level is reset whatever the map is.
ResetCase_AnyMap(st, lv, current_map) ==
  st.levels[PyIndex(st.levels, lv - 1)].end # None

\* The reset case of update(): the current level's end is cleared.
ResetCase(st, lv, current_map) ==
  /\ SameLevel(lv, current_map)
  /\ st.levels[PyIndex(st.levels, lv - 1)].end # None

\* The level in progress is closed only by a map outside the registry, as
\* FractalState closes its instance.
StopCase_OnlyUntracked(st, lv, current_map) ==
  /\ ~SameLevel(lv, current_map)
  /\ current_map \notin DOMAIN MAP_TO_NAME
  /\ st.levels[PyIndex(st.levels, lv - 1)].start # None
  /\ st.levels[PyIndex(st.levels, lv - 1)].end = None

\* The stop case of update(): the current level is in progress and is left.
StopCase(st, lv, current_map) ==
  /\ ~SameLevel(lv, current_map)
  /\ st.levels[PyIndex(st.levels, lv - 1)].start # None
  /\ st.levels[PyIndex(st.levels, lv - 1)].end = None

\* Entering the map of any later level counts as entering the next one.
StartCase_AnyLaterLevel(lv, current_map) ==
  /\ ~SameLevel(lv, current_map)
  /\ \E l \in DOMAIN LEVEL_TO_MAP : l > lv /\ LEVEL_TO_MAP[l] = current_map

\* The start case of update(): the map is the next level's.
StartCase(lv, current_map) ==
  /\ ~SameLevel(lv, current_map)
  /\ current_map = LevelToMapGet(lv + 1)

\* A reset clears the level's start as well.
AfterReset_ClearsStart(st, lv) ==
  [st EXCEPT !.levels[PyIndex(st.levels, lv - 1)] = [start |-> None, end |-> None]]

AfterReset(st, lv) == [st EXCEPT !.levels[PyIndex(st.levels, lv - 1)].end = None]

\* The level's end is stamped with its own start instead of now.
AfterStop_StampsStart(st, lv, now) ==
  [st EXCEPT !.levels[PyIndex(st.levels, lv - 1)].end =
                st.levels[PyIndex(st.levels, lv - 1)].start]

AfterStop(st, lv, now) == [st EXCEPT !.levels[PyIndex(st.levels, lv - 1)].end = now]

\* A reset clears the end of a level and never moves the cursor back.
LevelAfterUpdate_ResetGoesBack(lv, isReset, isStart) ==
  IF isStart THEN lv + 1 ELSE IF isReset THEN lv - 1 ELSE lv

\* self.level after update(): only the start case moves it (self.level += 1).
LevelAfterUpdate(lv, isReset, isStart) == IF isStart THEN lv + 1 ELSE lv

\* The start is written at the level number used as a 0-based index.
AfterStart_OffByOne(st, lv, now) ==
  [st EXCEPT !.levels[PyIndex(st.levels, lv % Len(st.levels))].start = now]

AfterStart(st, lv, now) == [st EXCEPT !.levels[PyIndex(st.levels, lv - 1)].start = now]

\* The file after the reset or stop branch of update() has logged.
FileAfterFirst(st, file) == save_state(st)

\* The start branch does not persist.
FileAfterStart_NotSaved(st, file) == file

\* The file after the start branch of update() has logged.
FileAfterStart(st, file) == save_state(st)

\* update() raises IndexError where it indexes levels out of range: reading
\* the current level (lines 245, 252) or, after self.level += 1, writing the
\* new level's start (line 259); label() raises KeyError for a level the
\* registry does not hold.
MarathonState_update(current_map, now) ==
  LET noCur   == ~InRange(state.levels, level - 1)
      isReset == ~noCur /\ ResetCase(state, level, current_map)
      isStop  == ~noCur /\ StopCase(state, level, current_map)
      isStart == ~noCur /\ StartCase(level, current_map)
      s1      == IF isReset THEN AfterReset(state, level)
                 ELSE IF isStop THEN AfterStop(state, level, now)
                 ELSE state
      f1      == IF isReset \/ isStop THEN FileAfterFirst(s1, state_json) ELSE state_json
      lv2     == LevelAfterUpdate(level, isReset, isStart)
      noNext  == isStart /\ ~InRange(s1.levels, lv2 - 1)
      started == isStart /\ ~noNext
      s2      == IF started THEN AfterStart(s1, lv2, now) ELSE s1
      f2      == IF started THEN FileAfterStart(s2, f1) ELSE f1
      noLabel == lv2 # 0 /\ lv2 \notin DOMAIN LEVEL_TO_MAP
  IN /\ clock' = now
     /\ called' = <<"update", current_map>>
     /\ state' = s2
     /\ level' = lv2
     /\ state_json' = f2
     /\ logged' = (IF isReset THEN <<"instance reset">> ELSE <<>>)
                  \o (IF isStop THEN <<"instance stop">> ELSE <<>>)
                  \o (IF started THEN <<"instance start">> ELSE <<>>)
     /\ raised' = IF noCur \/ noNext THEN "IndexError"
                  ELSE IF noLabel THEN "KeyError"
                  ELSE ""
     /\ ret' = IF raised' = "" THEN M_triple(s2, lv2, now) ELSE ret

\* stop() also closes every level in progress, as FractalState.stop closes
\* the instance.
M_AfterStop_ClosesLevels(st, now) ==
  [st EXCEPT !.end = now,
             !.levels = [i \in DOMAIN st.levels |->
                           IF st.levels[i].start # None /\ st.levels[i].end = None
                           THEN [st.levels[i] EXCEPT !.end = now]
                           ELSE st.levels[i]]]

M_AfterStop(st, now) == [st EXCEPT !.end = now]

MarathonState_stop(now) ==
  /\ clock' = now
  /\ called' = <<"stop">>
  /\ state' = M_AfterStop(state, now)
  /\ level' = level
  /\ state_json' = save_state(state')
  /\ logged' = <<"stop">>
  /\ ret' = IF InRange(state.levels, level - 1) THEN M_triple(state', level, now) ELSE ret
  /\ raised' = IF InRange(state.levels, level - 1) THEN "" ELSE "IndexError"

\* start() stamps the session start on every call.
M_AfterStart_Clobbers(st, now) == [st EXCEPT !.start = now]

M_AfterStart(st, now) == [st EXCEPT !.start = ifN(st.start, now)]

MarathonState_start(now) ==
  /\ clock' = now
  /\ called' = <<"start">>
  /\ state' = M_AfterStart(state, now)
  /\ level' = level
  /\ state_json' = save_state(state')
  /\ logged' = <<"start">>
  /\ ret' = IF InRange(state.levels, level - 1) THEN M_triple(state', level, now) ELSE ret
  /\ raised' = IF InRange(state.levels, level - 1) THEN "" ELSE "IndexError"

\* MarathonState.__init__ in a new process: the document is read back when
\* reload_state is set and state.json exists, else it is the fresh one.
LoadedState(reload_state, file) ==
  IF reload_state /\ file # <<>> THEN json_load(file[1]) ELSE FreshState

MarathonState_init(reload_state) ==
  /\ state' = LoadedState(reload_state, state_json)
  /\ level' = LevelOf(state')
  /\ called' = <<"__init__", reload_state>>
  /\ logged' = <<>>
  /\ ret' = NoTriple
  /\ raised' = ""
  /\ UNCHANGED <<clock, state_json>>

(* ------------------------------------------------------ specifications *)

InitAt(t) ==
  /\ clock = t
  /\ fractal = NoAttrs
  /\ state = FreshState
  /\ level = LevelOf(FreshState)
  /\ state_json = <<>>
  /\ running = FALSE
  /\ called = <<"__init__">>
  /\ logged = <<>>
  /\ ret = NoTriple
  /\ raised = ""
  /\ calls = 0

\* A process started at second 1 with no state.json.
Init == InitAt(1)

Bounded == calls < MaxCalls /\ calls' = calls + 1

\* MarathonState driven through its three methods, MaxCalls calls long.
M_Update ==
  /\ Bounded
  /\ \E current_map \in MapIds, now \in Nows : MarathonState_update(current_map, now)
  /\ UNCHANGED <<fractal, running>>

M_Start ==
  /\ Bounded
  /\ \E now \in Nows : MarathonState_start(now)
  /\ UNCHANGED <<fractal, running>>

M_Stop ==
  /\ Bounded
  /\ \E now \in Nows : MarathonState_stop(now)
  /\ UNCHANGED <<fractal, running>>

Next == M_Update \/ M_Start \/ M_Stop

Spec == Init /\ [][Next]_vars

\* The same three methods with process restarts in between.
M_Restart ==
  /\ Bounded
  /\ \E reload_state \in BOOLEAN : MarathonState_init(reload_state)
  /\ UNCHANGED <<fractal, running>>

NextRestart == M_Update \/ M_Start \/ M_Stop \/ M_Restart

SpecRestart == Init /\ [][NextRestart]_vars

\* A whole marathon: any number of calls, all of them at or after second
\* MaxNow, where the clock has saturated.
L_Update ==
  /\ \E current_map \in MapIds, now \in Nows : MarathonState_update(current_map, now)
  /\ UNCHANGED <<fractal, running, calls>>

L_Start ==
  /\ \E now \in Nows : MarathonState_start(now)
  /\ UNCHANGED <<fractal, running, calls>>

L_Stop ==
  /\ \E now \in Nows : MarathonState_stop(now)
  /\ UNCHANGED <<fractal, running, calls>>

NextLong == L_Update \/ L_Start \/ L_Stop

SpecLong == InitAt(MaxNow) /\ [][NextLong]_vars

\* A marathon played in order across restarts: the player is in the cursor's
\* fractal, in the next one or outside the fractals when update() polls, and
\* at any time the process exits and a new one reloads state.json.
PlayedMaps(lv) ==
  {m \in {LevelToMapGet(lv), LevelToMapGet(lv + 1)} : m # None} \cup (MapIds \ DOMAIN MAP_TO_NAME)

L_PlayUpdate ==
  /\ \E current_map \in PlayedMaps(level), now \in Nows :
       MarathonState_update(current_map, now)
  /\ UNCHANGED <<fractal, running, calls>>

L_Restart ==
  /\ MarathonState_init(TRUE)
  /\ UNCHANGED <<fractal, running, calls>>

NextLongRestart == L_PlayUpdate \/ L_Restart

SpecLongRestart == InitAt(MaxNow) /\ [][NextLongRestart]_vars

\* A state.json the program did not write in full: its levels list has fewer
\* than 102 entries, each unset, in progress or completed at second 1.
ShortDocs ==
  {[start |-> None, end |-> None, levels |-> ls] :
     ls \in UNION {[1..n -> {[start |-> None, end |-> None],
                             [start |-> 1, end |-> None],
                             [start |-> 1, end |-> 1]}] : n \in 0..MaxShort}}

\* A process constructed with reload_state = True next to such a file.
InitShortDoc ==
  \E doc \in ShortDocs :
    /\ clock = 1
    /\ fractal = NoAttrs
    /\ state_json = save_state(doc)
    /\ state = LoadedState(TRUE, state_json)
    /\ level = LevelOf(state)
    /\ running = FALSE
    /\ called = <<"__init__", TRUE>>
    /\ logged = <<>>
    /\ ret = NoTriple
    /\ raised = ""
    /\ calls = 0

SpecShortDoc == InitShortDoc /\ [][Next]_vars

\* FractalState driven through its three methods.
F_Update ==
  /\ \E current_map \in MapIds, now \in Nows : FractalState_update(current_map, now)
  /\ UNCHANGED <<state, level, state_json, running, calls>>

F_Start ==
  /\ \E now \in Nows : FractalState_start(now)
  /\ UNCHANGED <<state, level, state_json, running, calls>>

F_Stop ==
  /\ \E now \in Nows : FractalState_stop(now)
  /\ UNCHANGED <<state, level, state_json, running, calls>>

NextDaily == F_Update \/ F_Start \/ F_Stop

SpecDaily == Init /\ [][NextDaily]_vars

\* FractalTimer with --state daily: the button and the 250 ms poll.
toggle_timer ==
  /\ running' = ~running
  /\ IF running
     THEN \E now \in Nows : FractalState_stop(now)
     ELSE \E now \in Nows : FractalState_start(now)
  /\ UNCHANGED <<state, level, state_json, calls>>

tick_tock ==
  /\ running
  /\ \E current_map \in MapIds, now \in Nows : FractalState_update(current_map, now)
  /\ UNCHANGED <<state, level, state_json, running, calls>>

NextDailyDriver == toggle_timer \/ tick_tock

SpecDailyDriver == Init /\ [][NextDailyDriver]_vars

\* FractalTimer with --state marathon: the button and the 250 ms poll over
\* MarathonState, MaxCalls calls long.
toggle_timer_marathon ==
  /\ Bounded
  /\ running' = ~running
  /\ IF running
     THEN \E now \in Nows : MarathonState_stop(now)
     ELSE \E now \in Nows : MarathonState_start(now)
  /\ UNCHANGED fractal

tick_tock_marathon ==
  /\ Bounded
  /\ running
  /\ \E current_map \in MapIds, now \in Nows : MarathonState_update(current_map, now)
  /\ UNCHANGED <<fractal, running>>

NextMarathonDriver == toggle_timer_marathon \/ tick_tock_marathon

SpecMarathonDriver == Init /\ [][NextMarathonDriver]_vars

(* -------------------------------------------------------------- claims *)

\* The registry's zoneOfStage(n) = z, false for a stage number it does not hold.
IsZoneOfStage(n, z) == n \in DOMAIN LEVEL_TO_MAP /\ LEVEL_TO_MAP[n] = z

\* The step was a call of update().
UpdateStep == called'[1] = "update"

\* C1: across update() calls of one process the cursor (self.level) never
\* decreases, and an update that resets (logs "instance reset") leaves the
\* cursor where it is and leaves the current stage's end cleared.
C1_CursorNeverDecreases ==
  [][UpdateStep =>
       /\ level' >= level
       /\ ("instance reset" \in Range(logged') =>
             /\ level' = level
             /\ state.levels[level].end # None
             /\ state'.levels[level].end = None)]_vars

\* A reset happened on a stage above the first: the cursor had advanced.
C1_Witness ==
  /\ called[1] = "update"
  /\ logged = <<"instance reset">>
  /\ level >= 2
  /\ state.levels[level].end = None

\* C2: update(z) leaves the cursor at cur or moves it to cur + 1, and moves it
\* exactly when z is the zone of stage cur + 1; any other z leaves every
\* stage's start as it was.
C2_OnlyNextStageAdvances ==
  [][UpdateStep =>
       LET z == called'[2]
       IN /\ level' \in {level, level + 1}
          /\ level' = level + 1 <=> IsZoneOfStage(level + 1, z)
          /\ ~IsZoneOfStage(level + 1, z) =>
               \A i \in DOMAIN state.levels :
                 state'.levels[i].start = state.levels[i].start]_vars

\* An update with the map of a stage that is neither the current nor the next
\* one closed the current stage and left the cursor alone.
C2_Witness ==
  /\ called[1] = "update"
  /\ called[2] \in DOMAIN MAP_TO_NAME
  /\ level >= 1
  /\ ~IsZoneOfStage(level, called[2])
  /\ ~IsZoneOfStage(level + 1, called[2])
  /\ logged = <<"instance stop">>

\* C3: update(z) with z the zone of the current stage cur >= 1: when that
\* stage's end is set the call clears it and changes nothing else of the
\* document or the cursor; when it is unset the call changes nothing.
C3_ResetFrame ==
  [][(UpdateStep /\ level >= 1 /\ IsZoneOfStage(level, called'[2])) =>
       /\ level' = level
       /\ IF state.levels[level].end # None
          THEN state' = [state EXCEPT !.levels[level].end = None]
          ELSE state' = state /\ state_json' = state_json]_vars

\* A reset during a started session, some seconds after the stage began.
C3_Witness ==
  /\ called[1] = "update"
  /\ logged = <<"instance reset">>
  /\ state.start # None
  /\ state.levels[level].start # None
  /\ state.levels[level].start < clock
  /\ state.levels[level].end = None

\* C4: update(z) with the current stage cur >= 1 in progress and z not its
\* zone stamps that stage's end with now; when z is the zone of stage cur + 1
\* the same call moves the cursor to cur + 1 and stamps the new stage's start
\* with the same now, the stop logged before the start.
C4_StopThenStart ==
  [][(/\ UpdateStep
      /\ level >= 1
      /\ state.levels[level].start # None
      /\ state.levels[level].end = None
      /\ ~IsZoneOfStage(level, called'[2])) =>
       /\ state'.levels[level].end = clock'
       /\ state'.levels[level].start = state.levels[level].start
       /\ IsZoneOfStage(level + 1, called'[2]) =>
            /\ level' = level + 1
            /\ state'.levels[level + 1].start = clock'
            /\ logged' = <<"instance stop", "instance start">>]_vars

\* One call closed a stage that had run for a while and opened the next.
C4_Witness ==
  /\ called[1] = "update"
  /\ logged = <<"instance stop", "instance start">>
  /\ level >= 2
  /\ state.levels[level - 1].start < clock
  /\ state.levels[level - 1].end = clock
  /\ state.levels[level].start = clock
  /\ state.levels[level].end = None

\* 1 + the largest 0-based index of a stage whose end is set, 0 without one.
CursorOfStages(stages) ==
  IF \E i \in DOMAIN stages : stages[i].end # None
  THEN CHOOSE i \in DOMAIN stages :
         /\ stages[i].end # None
         /\ \A j \in DOMAIN stages : stages[j].end # None => j <= i
  ELSE 0

\* C5: a new MarathonState built with reload_state=True from the file that
\* holds the persisted document has a levels list identical to that document's
\* and level = 1 + the largest index with an end, or 0.
C5_ReloadRoundTrip ==
  [][(/\ called' = <<"__init__", TRUE>>
      /\ state_json # <<>>
      /\ state_json = <<json_dump(state)>>) =>
       /\ state'.levels = state.levels
       /\ state' = state
       /\ level' = CursorOfStages(state.levels)]_vars

\* A reload of a document with a completed stage and a session start.
C5_Witness ==
  /\ called = <<"__init__", TRUE>>
  /\ state_json # <<>>
  /\ state.start # None
  /\ level >= 1
  /\ state.levels[level].end # None
  /\ state.levels[level].start # None

\* C6: when a start(), stop() or update() call has changed the document,
\* state.json holds the in-memory document when the call returns.
C6_PersistedAfterMutation ==
  [][(called'[1] \in {"start", "stop", "update"} /\ state' # state) =>
       /\ state_json' # <<>>
       /\ state_json'[1] = json_dump(state')
       /\ json_load(state_json'[1]) = state']_vars

\* Both branches of one update fired and the file holds the result.
C6_Witness ==
  /\ called[1] = "update"
  /\ logged = <<"instance stop", "instance start">>
  /\ state.start # None
  /\ state_json = <<json_dump(state)>>

\* Stage 102 is the cursor's stage and is completed.
LastStageCompleted ==
  /\ level = NumLevels
  /\ state.levels[NumLevels].start # None
  /\ state.levels[NumLevels].end # None

\* C7 as claimed: once stage 102 is completed, every update(z) leaves the
\* cursor at 102 and every stage record unchanged.
C7_AsClaimed ==
  [][(UpdateStep /\ LastStageCompleted) =>
       level' = NumLevels /\ state'.levels = state.levels]_vars

\* C7 amended: once stage 102 is completed, every update(z) leaves the cursor
\* at 102; with z other than stage 102's zone it leaves every stage record
\* unchanged, and with stage 102's zone it clears that stage's end (the reset
\* case) and changes nothing else.
C7_InertExceptReset ==
  [][(UpdateStep /\ LastStageCompleted) =>
       /\ level' = NumLevels
       /\ IF IsZoneOfStage(NumLevels, called'[2])
          THEN state' = [state EXCEPT !.levels[NumLevels].end = None]
          ELSE state' = state]_vars

\* An update with another map after stage 102 was completed did nothing.
C7_Witness ==
  /\ LastStageCompleted
  /\ called[1] = "update"
  /\ ~IsZoneOfStage(NumLevels, called[2])
  /\ logged = <<>>

\* C8: FractalState.update(z) with z the active map changes no attribute.
C8_SameZoneIdempotent ==
  [][(/\ UpdateStep
      /\ HasAttr(fractal, "current_map")
      /\ fractal["current_map"] # None
      /\ called'[2] = fractal["current_map"]) =>
       fractal' = fractal]_vars

\* A later poll of the same map, after the instance had run for a while.
C8_Witness ==
  /\ called[1] = "update"
  /\ raised = ""
  /\ logged = <<>>
  /\ HasAttr(fractal, "current_map")
  /\ fractal["current_map"] = called[2]
  /\ fractal["current_start"] < clock

\* C9: FractalState.update(z) with z untracked: with a map active it clears
\* current_map and sets current_end = now, keeping current_map_name and
\* current_start (and the run's start and end); with no map active it changes
\* nothing.
C9_UntrackedStops ==
  [][(UpdateStep /\ called'[2] \notin DOMAIN MAP_TO_NAME) =>
       IF HasAttr(fractal, "current_map") /\ fractal["current_map"] # None
       THEN fractal' = [fractal EXCEPT !["current_map"] = None,
                                       !["current_end"] = clock']
       ELSE fractal' = fractal]_vars

\* An instance was stopped by an untracked map some seconds after it began.
C9_Witness ==
  /\ called[1] = "update"
  /\ called[2] \notin DOMAIN MAP_TO_NAME
  /\ logged = <<"instance stop">>
  /\ fractal["current_map"] = None
  /\ fractal["current_map_name"] # ""
  /\ fractal["current_start"] < clock
  /\ fractal["current_end"] = clock

\* C10 as claimed: every start() of the daily timer returns a display triple
\* and leaves start = now, end, current_map, current_start and current_end
\* unset and the label empty.
C10_StartAlwaysCompletes ==
  called = <<"start">> =>
    /\ raised = ""
    /\ ret = <<"0:00:00", "", "">>
    /\ fractal = F_AfterStart(fractal, clock)

\* C11: the session start is write-once: a start() that finds it unset sets it
\* to now, and once it is set no start(), stop() or update() and no reload of
\* the persisted document changes it.
C11_SessionStartWriteOnce ==
  [][/\ (called'[1] = "start" /\ state.start = None) => state'.start = clock'
     /\ (state.start # None /\ called' # <<"__init__", FALSE>>) =>
          state'.start = state.start]_vars

\* A later start() found the session start set and left it.
C11_Witness ==
  /\ called = <<"start">>
  /\ state.start # None
  /\ state.start < clock

\* C12: start() and stop() change no stage record and not the cursor; stop()
\* only sets the session end to now, also with the current stage in progress.
C12_StartStopFrame ==
  [][(called'[1] \in {"start", "stop"}) =>
       /\ state'.levels = state.levels
       /\ level' = level
       /\ called'[1] = "stop" => state' = [state EXCEPT !.end = clock']]_vars

\* stop() was called with the current stage in progress and left it open.
C12_Witness ==
  /\ called = <<"stop">>
  /\ level >= 1
  /\ state.levels[level].start # None
  /\ state.levels[level].end = None
  /\ state.end = clock

\* C13: no gaps: in every state reached from a fresh timer by start(), stop()
\* and update(), every stage numbered below the cursor has both its start and
\* its end set.
C13_NoGaps ==
  \A n \in 1..NumLevels :
    n < level => /\ state.levels[n].start # None
                 /\ state.levels[n].end # None

\* The last stage is in progress with 101 stages behind the cursor.
C13_Witness ==
  /\ level = NumLevels
  /\ state.levels[NumLevels].start # None
  /\ state.levels[NumLevels].end = None

\* C19: shape of the timeline from a fresh timer: the cursor is in 0..102,
\* every stage numbered above the cursor has start and end unset, and a stage
\* in progress (start set, end unset) is the cursor's stage.
C19_Shape ==
  /\ level \in 0..NumLevels
  /\ \A n \in 1..NumLevels :
       /\ n > level => state.levels[n] = [start |-> None, end |-> None]
       /\ (state.levels[n].start # None /\ state.levels[n].end = None) => n = level

\* A stage in the middle of the sequence is in progress after a reset.
C19_Witness ==
  /\ level \in 2..(NumLevels - 1)
  /\ called[1] = "update"
  /\ "instance reset" \in Range(logged)
  /\ state.levels[level].start # None
  /\ state.levels[level].end = None

\* C14: restart equivalence of the cursor: when a process whose document is
\* persisted exits and a new one is constructed with reload_state = True, the
\* new cursor equals the old one, also with the current stage in progress or
\* just reset.
C14_ReloadKeepsCursor ==
  [][(called' = <<"__init__", TRUE>> /\ state_json = save_state(state)) =>
       level' = level]_vars

\* C18: a stage's start is write-once: once set, no start(), stop() or
\* update() and no reload of the persisted document changes it.
C18_StageStartWriteOnce ==
  [][(called' # <<"__init__", FALSE>>) =>
       \A n \in 1..NumLevels :
         state.levels[n].start # None =>
           state'.levels[n].start = state.levels[n].start]_vars

\* C15: with the cursor at 0 (fresh, or reloaded from a document the program
\* wrote) update() changes nothing or performs only the start transition
\* (cursor 1, start of stage 1 = now); it sets or clears no stage's end, in
\* particular not that of stage 102 through the index cursor - 1 = -1.
C15_CursorZeroUpdate ==
  [][(UpdateStep /\ level = 0) =>
       \/ state' = state /\ level' = 0
       \/ /\ level' = 1
          /\ state' = [state EXCEPT !.levels[1].start = clock']]_vars

\* C16: a persisted document whose levels list has fewer than 102 entries is
\* rejected at load time or padded to 102 entries, so the list has length 102
\* in every state in which update() runs.
C16_ShortDocumentNeverUsed ==
  [][UpdateStep => Len(state.levels) = NumLevels]_vars

\* The instance was closed by an update() with an untracked map: no map is
\* active and the instance has a start and an end.
InstanceClosed ==
  /\ HasAttr(fractal, "current_map")
  /\ fractal["current_map"] = None
  /\ fractal["current_start"] # None
  /\ fractal["current_end"] # None

\* C17: once an instance has been closed by an untracked-map update at t,
\* current_end and the instance time of the returned triple stay at t under
\* every later call until the next tracked-map update or start(); a later
\* stop() does not change them.
C17_ClosedInstanceFrozen ==
  [][(/\ InstanceClosed
      /\ called'[1] # "start"
      /\ ~(UpdateStep /\ called'[2] \in DOMAIN MAP_TO_NAME)) =>
       /\ fractal'["current_end"] = fractal["current_end"]
       /\ raised' = "" =>
            ret'[3] = strtime(fractal["current_start"], fractal["current_end"])]_vars

\* C20: under the polling driver, whenever the driver is running (the last
\* toggle called start()) the session end is unset, so the total time keeps
\* advancing; also after a stop() followed by a second start().
C20_RunningHasNoSessionEnd == running => state.end = None

====
